---- MODULE Spec2Model ----
(***************************************************************************)
(* rskey: a key-value store of strings mirrored to one JSON data file.     *)
(*                                                                         *)
(* The model covers Store (src/src/lib.rs): open_or_create, save, set,     *)
(* get and into_iter, together with the file system the Store talks to     *)
(* (File::open, File::create, BufWriter, serde_json).  Several Store       *)
(* values may be bound to the same path, as happens when the rskey binary  *)
(* is run more than once.                                                  *)
(*                                                                         *)
(* A file is a sequence of JSON tokens: the punctuation "{" "}" ":" ","    *)
(* and string literals.  An I/O fault is a limit on the number of tokens   *)
(* the device accepts during one save (disk full, EIO).                    *)
(***************************************************************************)
EXTENDS Integers, Sequences, FiniteSets, TLC

\* Capacity of the BufWriter that save wraps around the file, in tokens
\* (a scaled-down stand-in for the default capacity of std's BufWriter).
BufCap == 6

Keys == {"k1", "k2"}
Values == {"v1", "v2"}
Procs == {"p1", "p2"}

\* "store.kv" lies in a writable directory; the parent component of
\* "not_a_directory/store_file" is a regular file (lib.rs:279-287).
GoodPath == "store.kv"
BadPath == "not_a_directory/store_file"
Paths == {GoodPath, BadPath}

Punct == {"{", "}", ":", ","}
EmptyMap == [k \in {} |-> "v1"]
NoFile == [exists |-> FALSE, bytes |-> <<>>]

\* Longest encoding of a mapping over Keys.
MaxEncLen == 4 * Cardinality(Keys) + 1

\* The number of tokens the device accepts during one save: none, a few,
\* one buffer full, or all of them (no fault).
Budgets == {0, 3, BufCap, MaxEncLen}

VARIABLES file, perm, stores, last
vars == <<file, perm, stores, last>>

----------------------------------------------------------------------------
(* HashMap<String, String> *)

InsertKeepOld(data, k, v) ==
    [x \in DOMAIN data \cup {k} |-> IF x \in DOMAIN data THEN data[x] ELSE v]

InsertOnly(data, k, v) ==
    [x \in {k} |-> v]

\* HashMap::insert: add the key or overwrite its value.
Insert(data, k, v) ==
    [x \in DOMAIN data \cup {k} |-> IF x = k THEN v ELSE data[x]]

GetOrDefault(data, key) ==
    IF key \in DOMAIN data THEN data[key] ELSE "v1"

\* HashMap::get: Some(value) or None.
get(data, key) ==
    IF key \in DOMAIN data THEN data[key] ELSE "None"

\* The iteration orders a HashMap may produce: every permutation of its keys.
Orders(data) ==
    LET n == Cardinality(DOMAIN data)
    IN  {s \in [1..n -> DOMAIN data] : \A i, j \in 1..n : i # j => s[i] # s[j]}

IterDropsLast(data, order) ==
    [i \in 1..(Len(order) - 1) |-> <<order[i], data[order[i]]>>]

\* Store::into_iter: the pairs of the mapping in the HashMap's order.
into_iter(data, order) ==
    [i \in 1..Len(order) |-> <<order[i], data[order[i]]>>]

----------------------------------------------------------------------------
(* serde_json *)

RECURSIVE EncodeMembers(_, _)
EncodeMembers(data, order) ==
    IF order = <<>> THEN <<>>
    ELSE <<Head(order), ":", data[Head(order)]>>
         \o (IF Len(order) > 1 THEN <<",">> ELSE <<>>)
         \o EncodeMembers(data, Tail(order))

\* serde_json::to_writer on a HashMap: a JSON object, members in map order.
Encode(data, order) ==
    <<"{">> \o EncodeMembers(data, order) \o <<"}">>

DecodeErr == [ok |-> FALSE, data |-> EmptyMap]

\* A member list starting at token i: string ":" string, then "," or "}".
\* A repeated key keeps its last value; nothing may follow the "}".
RECURSIVE DecodeMembers(_, _, _)
DecodeMembers(b, i, acc) ==
    IF i + 3 > Len(b) THEN DecodeErr
    ELSE IF b[i] \in Punct \/ b[i+1] # ":" \/ b[i+2] \in Punct THEN DecodeErr
    ELSE LET acc2 == Insert(acc, b[i], b[i+2])
         IN  IF b[i+3] = "}"
             THEN IF i + 3 = Len(b) THEN [ok |-> TRUE, data |-> acc2]
                  ELSE DecodeErr
             ELSE IF b[i+3] = ","
             THEN DecodeMembers(b, i + 4, acc2)
             ELSE DecodeErr

\* serde_json::from_reader into a HashMap<String, String>.
Decode(b) ==
    IF Len(b) < 2 THEN DecodeErr
    ELSE IF b[1] # "{" THEN DecodeErr
    ELSE IF b[2] = "}"
    THEN IF Len(b) = 2 THEN [ok |-> TRUE, data |-> EmptyMap] ELSE DecodeErr
    ELSE DecodeMembers(b, 2, EmptyMap)

----------------------------------------------------------------------------
(* std::fs and std::io *)

\* File::open(&path): the error kind, "none" when the file is opened.
OpenErr(path, f, pm) ==
    IF path = BadPath THEN "NotADirectory"
    ELSE IF pm = "none" THEN "PermissionDenied"
    ELSE IF ~f.exists THEN "NotFound"
    ELSE "none"

\* File::create(&path): the error kind, "none" when the file is created or
\* truncated.
CreateErr(path, pm) ==
    IF path = BadPath THEN "NotADirectory"
    ELSE IF pm # "rw" THEN "PermissionDenied"
    ELSE "none"

\* A BufWriter over the file: buf is the buffered tokens, out the tokens the
\* file holds, room the number of tokens the device still accepts.
NewWriter(budget) ==
    [buf |-> <<>>, out |-> <<>>, room |-> budget, ok |-> TRUE]

\* BufWriter::flush_buf: write the buffer out; on a fault the tokens the
\* device took are in the file and the rest stay buffered.
FlushBuf(w) ==
    IF Len(w.buf) <= w.room
    THEN [buf |-> <<>>, out |-> w.out \o w.buf,
          room |-> w.room - Len(w.buf), ok |-> TRUE]
    ELSE [buf |-> SubSeq(w.buf, w.room + 1, Len(w.buf)),
          out |-> w.out \o SubSeq(w.buf, 1, w.room),
          room |-> 0, ok |-> FALSE]

\* BufWriter::write of one token: flush first when the token does not fit.
BufWrite(w, tok) ==
    LET f == IF Len(w.buf) + 1 > BufCap THEN FlushBuf(w) ELSE w
    IN  IF f.ok THEN [f EXCEPT !.buf = Append(f.buf, tok)] ELSE f

\* serde_json::to_writer: write the tokens one after the other and stop at
\* the first write that fails.
RECURSIVE ToWriter(_, _)
ToWriter(w, toks) ==
    IF toks = <<>> THEN w
    ELSE LET w2 == BufWrite(w, Head(toks))
         IN  IF w2.ok THEN ToWriter(w2, Tail(toks)) ELSE w2

\* Drop of the BufWriter: flush what is buffered and ignore the outcome.
DropWriter(w) ==
    FlushBuf(w).out

----------------------------------------------------------------------------
(* Store *)

OpenSwallowsErrors(path, f, pm) ==
    LET e == OpenErr(path, f, pm)
        d == Decode(f.bytes)
    IN  IF e = "none" /\ d.ok
        THEN [res |-> "Ok", err |-> "none", data |-> d.data, file |-> f]
        ELSE [res |-> "Ok", err |-> e, data |-> EmptyMap, file |-> f]

OpenCreatesFile(path, f, pm) ==
    LET e == OpenErr(path, f, pm)
        d == Decode(f.bytes)
    IN  IF e = "none"
        THEN IF d.ok
             THEN [res |-> "Ok", err |-> e, data |-> d.data, file |-> f]
             ELSE [res |-> "Err", err |-> "InvalidData", data |-> EmptyMap,
                   file |-> f]
        ELSE IF e = "NotFound"
        THEN [res |-> "Ok", err |-> e, data |-> EmptyMap,
              file |-> [exists |-> TRUE, bytes |-> <<"{", "}">>]]
        ELSE [res |-> "Err", err |-> e, data |-> EmptyMap, file |-> f]

OpenResetsCorrupt(path, f, pm) ==
    LET e == OpenErr(path, f, pm)
        d == Decode(f.bytes)
    IN  IF e = "none"
        THEN IF d.ok
             THEN [res |-> "Ok", err |-> e, data |-> d.data, file |-> f]
             ELSE [res |-> "Ok", err |-> "InvalidData", data |-> EmptyMap,
                   file |-> f]
        ELSE IF e = "NotFound"
        THEN [res |-> "Ok", err |-> e, data |-> EmptyMap, file |-> f]
        ELSE [res |-> "Err", err |-> e, data |-> EmptyMap, file |-> f]

\* Store::open_or_create: load the file, start empty when it is not found,
\* fail on any other error.  err is the error met on the way (also the
\* NotFound that is recovered from).
open_or_create(path, f, pm) ==
    LET e == OpenErr(path, f, pm)
        d == Decode(f.bytes)
    IN  IF e = "none"
        THEN IF d.ok
             THEN [res |-> "Ok", err |-> e, data |-> d.data, file |-> f]
             ELSE [res |-> "Err", err |-> "InvalidData", data |-> EmptyMap,
                   file |-> f]
        ELSE IF e = "NotFound"
        THEN [res |-> "Ok", err |-> e, data |-> EmptyMap, file |-> f]
        ELSE [res |-> "Err", err |-> e, data |-> EmptyMap, file |-> f]

\* Store::save: create (truncate) the file, then serialize the mapping into
\* a BufWriter over it.  fault tells whether any step met an I/O error,
\* creates counts the calls of File::create.
save(path, data, order, f, pm, budget) ==
    LET e == CreateErr(path, pm)
        w == ToWriter(NewWriter(budget), Encode(data, order))
    IN  IF e # "none"
        THEN [res |-> "Err", err |-> e, file |-> f, fault |-> TRUE,
              creates |-> 1]
        ELSE [res |-> IF w.ok THEN "Ok" ELSE "Err",
              err |-> IF w.ok THEN "none" ELSE "WriteFailed",
              file |-> [exists |-> TRUE, bytes |-> DropWriter(w)],
              fault |-> ~FlushBuf(w).ok,
              creates |-> 1]

SetRollsBack(path, data, key, value, order, f, pm, budget) ==
    LET d == Insert(data, key, value)
        r == save(path, d, order, f, pm, budget)
    IN  [res |-> r.res, err |-> r.err, file |-> r.file, fault |-> r.fault,
         data |-> IF r.res = "Ok" THEN d ELSE data,
         saves |-> 1, creates |-> r.creates]

SetRetries(path, data, key, value, order, f, pm, budget) ==
    LET d == Insert(data, key, value)
        r1 == save(path, d, order, f, pm, budget)
        r2 == save(path, d, order, r1.file, pm, budget)
    IN  IF r1.res = "Ok"
        THEN [res |-> r1.res, err |-> r1.err, file |-> r1.file,
              fault |-> r1.fault, data |-> d,
              saves |-> 1, creates |-> r1.creates]
        ELSE [res |-> r2.res, err |-> r2.err, file |-> r2.file,
              fault |-> r2.fault, data |-> d,
              saves |-> 2, creates |-> r1.creates + r2.creates]

SetSavesBeforeInsert(path, data, key, value, order, f, pm, budget) ==
    LET d == Insert(data, key, value)
        o == SelectSeq(order, LAMBDA k : k \in DOMAIN data)
        r == save(path, data, o, f, pm, budget)
    IN  [res |-> r.res, err |-> r.err, file |-> r.file, fault |-> r.fault,
         data |-> d, saves |-> 1, creates |-> r.creates]

\* Store::set: insert into the mapping, then save.  saves counts the calls
\* of save, creates those of File::create.
set(path, data, key, value, order, f, pm, budget) ==
    LET d == Insert(data, key, value)
        r == save(path, d, order, f, pm, budget)
    IN  [res |-> r.res, err |-> r.err, file |-> r.file, fault |-> r.fault,
         data |-> d, saves |-> 1, creates |-> r.creates]

\* The command lines of the binary: none, list, get KEY, set KEY VALUE.
Args ==
    {<<>>, <<"list">>}
    \cup {<<"get", k>> : k \in Keys}
    \cup {<<"set", k, v>> : k \in Keys, v \in Values}

\* main: open the Store at ./store.kv, then run the command.  exit is the
\* exit status, stdout the lines printed, order an order of all keys (the
\* HashMap's order of the keys it holds is taken from it).
main(args, order, f, pm, budget) ==
    LET o == open_or_create(GoodPath, f, pm)
        done == [exit |-> 0, stdout |-> <<>>, file |-> o.file,
                 fault |-> FALSE, saves |-> 0, creates |-> 0]
    IN  IF o.res = "Err"
        THEN [done EXCEPT !.exit = 1]
        ELSE IF args = <<"list">>
        THEN LET ord == SelectSeq(order, LAMBDA k : k \in DOMAIN o.data)
                 it == into_iter(o.data, ord)
             IN  [done EXCEPT !.stdout =
                     [i \in 1..Len(it) |-> <<it[i][1], ": ", it[i][2]>>]]
        ELSE IF Len(args) = 2 /\ args[1] = "get"
        THEN IF get(o.data, args[2]) # "None"
             THEN [done EXCEPT !.stdout =
                      << <<args[2], ": ", get(o.data, args[2])>> >>]
             ELSE [done EXCEPT !.stdout =
                      << <<"key", args[2], "not found">> >>]
        ELSE IF Len(args) = 3 /\ args[1] = "set"
        THEN LET d == Insert(o.data, args[2], args[3])
                 ord == SelectSeq(order, LAMBDA k : k \in DOMAIN d)
                 r == set(GoodPath, o.data, args[2], args[3], ord, o.file,
                          pm, budget)
             IN  [exit |-> IF r.res = "Err" THEN 1 ELSE 0, stdout |-> <<>>,
                  file |-> r.file, fault |-> r.fault, saves |-> r.saves,
                  creates |-> r.creates]
        ELSE [done EXCEPT !.stdout = << <<"Usage">> >>]

----------------------------------------------------------------------------
(* State *)

NoStore == [state |-> "none", path |-> GoodPath, data |-> EmptyMap]

\* The record of the last call: what was called, with what, what it
\* returned, and the mapping as it was when it was called.  twice tells that
\* the call before it was a set of the same key on the same Store.
NoCall ==
    [op |-> "init", proc |-> "p1", path |-> GoodPath, key |-> "k1",
     val |-> "v1", res |-> "Ok", err |-> "none", ret |-> "None",
     items |-> <<>>, fault |-> FALSE, twice |-> FALSE,
     dataBefore |-> EmptyMap, saves |-> 0, creates |-> 0,
     args |-> <<>>, exit |-> 0, stdout |-> <<>>]

Init ==
    /\ file = NoFile
    /\ perm = "rw"
    /\ stores = [p \in Procs |-> NoStore]
    /\ last = NoCall

\* let s = Store::open_or_create(path)
Open(p, path) ==
    /\ stores[p].state = "none"
    /\ LET r == open_or_create(path, file, perm)
       IN  /\ file' = r.file
           /\ stores' = IF r.res = "Ok"
                        THEN [stores EXCEPT ![p] =
                                 [state |-> "open", path |-> path,
                                  data |-> r.data]]
                        ELSE stores
           /\ last' = [NoCall EXCEPT !.op = "open", !.proc = p,
                          !.path = path, !.res = r.res, !.err = r.err]
    /\ UNCHANGED perm

\* s.set(key, value)
Set(p, key, value) ==
    /\ stores[p].state = "open"
    /\ \E budget \in Budgets :
       \E order \in Orders(Insert(stores[p].data, key, value)) :
          LET s == stores[p]
              r == set(s.path, s.data, key, value, order, file, perm, budget)
          IN  /\ file' = r.file
              /\ stores' = [stores EXCEPT ![p].data = r.data]
              /\ last' = [NoCall EXCEPT !.op = "set", !.proc = p,
                             !.path = s.path, !.key = key, !.val = value,
                             !.res = r.res, !.err = r.err,
                             !.fault = r.fault,
                             !.twice = (last.op = "set" /\ last.proc = p
                                        /\ last.key = key),
                             !.dataBefore = s.data,
                             !.saves = r.saves, !.creates = r.creates]
    /\ UNCHANGED perm

\* s.save()
Save(p) ==
    /\ stores[p].state = "open"
    /\ \E budget \in Budgets :
       \E order \in Orders(stores[p].data) :
          LET s == stores[p]
              r == save(s.path, s.data, order, file, perm, budget)
          IN  /\ file' = r.file
              /\ last' = [NoCall EXCEPT !.op = "save", !.proc = p,
                             !.path = s.path, !.res = r.res, !.err = r.err,
                             !.fault = r.fault,
                             !.dataBefore = s.data,
                             !.saves = 1, !.creates = r.creates]
    /\ UNCHANGED <<perm, stores>>

GetInsertsDefault(p, key) ==
    /\ stores[p].state = "open"
    /\ last' = [NoCall EXCEPT !.op = "get", !.proc = p,
                   !.path = stores[p].path, !.key = key,
                   !.ret = get(stores[p].data, key),
                   !.dataBefore = stores[p].data]
    /\ stores' = [stores EXCEPT ![p].data =
                     InsertKeepOld(stores[p].data, key, "v1")]
    /\ UNCHANGED <<file, perm>>

\* s.get(key)
Get(p, key) ==
    /\ stores[p].state = "open"
    /\ last' = [NoCall EXCEPT !.op = "get", !.proc = p,
                   !.path = stores[p].path, !.key = key,
                   !.ret = get(stores[p].data, key),
                   !.dataBefore = stores[p].data]
    /\ UNCHANGED <<file, perm, stores>>

IntoIterBorrows(p) ==
    /\ stores[p].state = "open"
    /\ \E order \in Orders(stores[p].data) :
          last' = [NoCall EXCEPT !.op = "iter", !.proc = p,
                      !.path = stores[p].path,
                      !.items = into_iter(stores[p].data, order),
                      !.dataBefore = stores[p].data]
    /\ UNCHANGED <<file, perm, stores>>

\* for (k, v) in s: the Store is moved into the iterator.
IntoIter(p) ==
    /\ stores[p].state = "open"
    /\ \E order \in Orders(stores[p].data) :
          last' = [NoCall EXCEPT !.op = "iter", !.proc = p,
                      !.path = stores[p].path,
                      !.items = into_iter(stores[p].data, order),
                      !.dataBefore = stores[p].data]
    /\ stores' = [stores EXCEPT ![p] = NoStore]
    /\ UNCHANGED <<file, perm>>

\* The Store goes out of scope (the process ends).
Drop(p) ==
    /\ stores[p].state = "open"
    /\ stores' = [stores EXCEPT ![p] = NoStore]
    /\ last' = [NoCall EXCEPT !.op = "drop", !.proc = p]
    /\ UNCHANGED <<file, perm>>

\* One run of the rskey binary in the directory of the data file.
Main(args) ==
    /\ \E budget \in (IF Len(args) = 3 THEN Budgets ELSE {MaxEncLen}) :
       \E order \in (IF Len(args) \in {1, 3} THEN Orders([k \in Keys |-> "v1"])
                     ELSE {<<>>}) :
          LET r == main(args, order, file, perm, budget)
          IN  /\ file' = r.file
              /\ last' = [NoCall EXCEPT !.op = "main", !.args = args,
                             !.exit = r.exit, !.stdout = r.stdout,
                             !.fault = r.fault, !.saves = r.saves,
                             !.creates = r.creates]
    /\ UNCHANGED <<perm, stores>>

\* The environment changes the access rights of the data file.
Chmod(pm) ==
    /\ perm # pm
    /\ perm' = pm
    /\ last' = [NoCall EXCEPT !.op = "env"]
    /\ UNCHANGED <<file, stores>>

\* File::create(&path) by a test fixture (lib.rs:298): a zero-length file.
Touch ==
    /\ file # [exists |-> TRUE, bytes |-> <<>>]
    /\ file' = [exists |-> TRUE, bytes |-> <<>>]
    /\ last' = [NoCall EXCEPT !.op = "env"]
    /\ UNCHANGED <<perm, stores>>

\* The data file is removed (a TempDir is dropped).
Unlink ==
    /\ file.exists
    /\ file' = NoFile
    /\ last' = [NoCall EXCEPT !.op = "env"]
    /\ UNCHANGED <<perm, stores>>

Next ==
    \/ \E p \in Procs, path \in Paths : Open(p, path)
    \/ \E p \in Procs, k \in Keys, v \in Values : Set(p, k, v)
    \/ \E p \in Procs : Save(p)
    \/ \E p \in Procs, k \in Keys : Get(p, k)
    \/ \E p \in Procs : IntoIter(p)
    \/ \E p \in Procs : Drop(p)
    \/ \E pm \in {"rw", "ro", "none"} : Chmod(pm)
    \/ Touch
    \/ Unlink

Spec == Init /\ [][Next]_vars

\* Runs of the binary, one after the other, on a data file the environment
\* may touch in between.
NextCli ==
    \/ Touch
    \/ Unlink
    \/ \E pm \in {"rw", "ro", "none"} : Chmod(pm)
    \/ \E args \in Args : Main(args)

SpecCli == Init /\ [][NextCli]_vars

----------------------------------------------------------------------------
(* Properties *)

\* The mapping the file at the data path decodes to, if it decodes.
Persisted(data) ==
    /\ file.exists
    /\ Decode(file.bytes) = [ok |-> TRUE, data |-> data]

\* C1: right after a set or save that returned Ok, the file exists and
\* decodes to exactly the mapping the Store holds.
C1_SuccessMeansPersisted ==
    (last.op \in {"set", "save"} /\ last.res = "Ok")
        => Persisted(stores[last.proc].data)

\* C2: a Store opened right after a successful set on the same path is
\* constructed and holds the mapping of the Store that was set.
C2_RoundTrip ==
    [][(last.op = "set" /\ last.res = "Ok"
        /\ last'.op = "open" /\ last'.path = last.path)
          => /\ last'.res = "Ok"
             /\ stores'[last'.proc].state = "open"
             /\ stores'[last'.proc].data = stores[last.proc].data]_vars

\* C3: after set(k, v) returned Ok, get(k) is v.
C3_SetThenGet ==
    (last.op = "set" /\ last.res = "Ok")
        => get(stores[last.proc].data, last.key) = last.val

\* A successful set that overwrote a different value of an existing key.
C3_Witness ==
    /\ last.op = "set"
    /\ last.res = "Ok"
    /\ get(last.dataBefore, last.key) \notin {"None", last.val}

\* C4: when set(k, v2) follows set(k, v1) on a Store, get(k) is v2 and every
\* other key reads as it did before the two calls.
C4_LastWriteWins ==
    [][(last.op = "set" /\ last'.op = "set"
        /\ last'.proc = last.proc /\ last'.key = last.key)
          => LET d == stores'[last.proc].data
             IN  /\ get(d, last.key) = last'.val
                 /\ \A j \in Keys \ {last.key} :
                       get(d, j) = get(last.dataBefore, j)]_vars

\* Two sets of one key in a row with different values, another key present.
C4_Witness ==
    /\ last.op = "set"
    /\ last.twice
    /\ get(last.dataBefore, last.key) \notin {"None", last.val}
    /\ \E j \in Keys \ {last.key} : j \in DOMAIN stores[last.proc].data

\* C5: open_or_create on a path where File::open reports NotFound returns
\* Ok with an empty mapping, and open_or_create, get, iteration and drop
\* leave the file as it is (absent if it was absent).
C5_OpenDefersCreation ==
    [][/\ (last'.op = "open" /\ OpenErr(last'.path, file, perm) = "NotFound")
            => /\ last'.res = "Ok"
               /\ stores'[last'.proc] =
                     [state |-> "open", path |-> last'.path,
                      data |-> EmptyMap]
               /\ ~file'.exists
       /\ (last'.op \in {"open", "get", "iter", "drop"}) => file' = file]_vars

\* A Store opened on an absent file, the file still absent.
C5_Witness ==
    /\ last.op = "open"
    /\ last.err = "NotFound"
    /\ stores[last.proc].state = "open"
    /\ ~file.exists

\* C6: a set or save that returns Err leaves the file, which was absent or
\* held a mapping, as it was: still absent, or with the same contents, or
\* decoding to the same mapping.
C6_FailedSaveKeepsFile ==
    [][(last'.op \in {"set", "save"} /\ last'.res = "Err"
        /\ (file.exists => Decode(file.bytes).ok))
          => /\ file'.exists = file.exists
             /\ \/ file'.bytes = file.bytes
                \/ /\ Decode(file'.bytes).ok
                   /\ Decode(file'.bytes) = Decode(file.bytes)]_vars

\* C7: a set or save during which creating, writing or flushing met an I/O
\* error returns Err.
C7_SaveFailuresPropagate ==
    (last.op \in {"set", "save"} /\ last.fault) => last.res = "Err"

\* C8: after set(k, v) returned Err, the mapping of the Store holds (k, v).
C8_FailedSetKeepsInsert ==
    (last.op = "set" /\ last.res = "Err")
        => get(stores[last.proc].data, last.key) = last.val

\* A failed set of a key that was not in the mapping; the file does not
\* hold the new mapping.
C8_Witness ==
    /\ last.op = "set"
    /\ last.res = "Err"
    /\ last.key \notin DOMAIN last.dataBefore
    /\ ~Persisted(stores[last.proc].data)

\* C9: when File::open fails with an error other than NotFound,
\* open_or_create returns Err with that error and no Store is constructed.
C9_OpenErrorsSurface ==
    (last.op = "open"
     /\ OpenErr(last.path, file, perm) \notin {"none", "NotFound"})
        => /\ last.res = "Err"
           /\ last.err = OpenErr(last.path, file, perm)
           /\ stores[last.proc].state = "none"

\* An open of a path whose parent component is a regular file.
C9_Witness ==
    /\ last.op = "open"
    /\ last.path = BadPath
    /\ last.err = "NotADirectory"

\* C10: when the file is opened but does not decode to a mapping,
\* open_or_create returns Err, constructs no Store and leaves the file as
\* it is.
C10_CorruptFileFailsOpen ==
    [][(last'.op = "open" /\ OpenErr(last'.path, file, perm) = "none"
        /\ ~Decode(file.bytes).ok)
          => /\ last'.res = "Err"
             /\ stores'[last'.proc].state = "none"
             /\ file' = file]_vars

\* A failed open of a file that holds a truncated encoding.
C10_Witness ==
    /\ last.op = "open"
    /\ last.res = "Err"
    /\ file.exists
    /\ file.bytes # <<>>
    /\ ~Decode(file.bytes).ok

\* C11: get of a key that is not in the mapping (never set, or a freshly
\* opened empty Store) returns None, and it returns no error.
C11_GetAbsentIsNone ==
    (last.op = "get" /\ last.key \notin DOMAIN last.dataBefore)
        => (last.ret = "None" /\ last.res = "Ok")

\* A get on a Store with an empty mapping.
C11_Witness ==
    /\ last.op = "get"
    /\ last.dataBefore = EmptyMap
    /\ last.ret = "None"

\* C12: a get call, of a present or an absent key, leaves the mapping of
\* every Store and the file as they are.
C12_GetHasNoEffects ==
    [][(last'.op = "get")
          => (stores' = stores /\ file' = file /\ perm' = perm)]_vars

\* A get of an absent key on a Store whose file exists.
C12_Witness ==
    /\ last.op = "get"
    /\ last.ret = "None"
    /\ file.exists
    /\ stores[last.proc].data = last.dataBefore

\* C13: when a successful save follows a successful save on the same Store,
\* the file decodes to the same mapping after the second as after the first.
C13_SaveIdempotent ==
    [][(last.op = "save" /\ last.res = "Ok"
        /\ last'.op = "save" /\ last'.res = "Ok" /\ last'.proc = last.proc)
          => /\ file'.exists
             /\ Decode(file'.bytes).ok
             /\ Decode(file'.bytes) = Decode(file.bytes)]_vars

\* C14: iteration yields as many pairs as the mapping has entries, every
\* entry of the mapping exactly once, and no pair that is not an entry.
C14_IterationCoversMapping ==
    (last.op = "iter")
        => LET it == last.items
               d == last.dataBefore
           IN  /\ Len(it) = Cardinality(DOMAIN d)
               /\ \A k \in DOMAIN d :
                     Cardinality({i \in 1..Len(it) : it[i] = <<k, d[k]>>}) = 1
               /\ \A i \in 1..Len(it) :
                     it[i][1] \in DOMAIN d /\ it[i][2] = d[it[i][1]]

\* An iteration over a mapping of two entries.
C14_Witness ==
    /\ last.op = "iter"
    /\ Cardinality(DOMAIN last.dataBefore) = 2
    /\ Len(last.items) = 2

\* C15 (as claimed): after an iteration the Store is still there with its
\* mapping, so that iteration, get and set can be called on it again.
C15_IterationRestartable ==
    (last.op = "iter")
        => /\ stores[last.proc].state = "open"
           /\ stores[last.proc].data = last.dataBefore

\* C15 (amended): iteration consumes the Store: after it the Store is gone,
\* and the next call on its owner is not get, set, save nor iteration.
C15_IterationConsumes ==
    [][/\ (last'.op = "iter") => stores'[last'.proc] = NoStore
       /\ (last.op = "iter" /\ last'.proc = last.proc)
             => last'.op \notin {"get", "set", "save", "iter", "drop"}]_vars

\* An iteration over a non-empty mapping loaded from the file.
C15_Witness ==
    /\ last.op = "iter"
    /\ last.items # <<>>
    /\ file.exists
    /\ stores[last.proc].state = "none"

\* C16: a run of the binary with no arguments prints the usage text and
\* exits with success.
C16_NoArgsPrintsUsage ==
    (last.op = "main" /\ last.args = <<>>)
        => (last.exit = 0 /\ last.stdout = << <<"Usage">> >>)

\* C17: a Store is constructed with the mapping the file decodes to, or the
\* empty one when there is no file; from then on its mapping changes only by
\* a set call on it, which adds or overwrites exactly its key whatever the
\* save returns; no key ever leaves the mapping.
C17_DataFollowsSets ==
    [][\A p \in Procs :
          /\ (stores[p].state = "none" /\ stores'[p].state = "open")
                => /\ last'.op = "open" /\ last'.proc = p
                   /\ stores'[p].data =
                         IF file.exists THEN Decode(file.bytes).data
                         ELSE EmptyMap
          /\ (stores[p].state = "open" /\ stores'[p].state = "open")
                => LET d == stores[p].data
                       e == stores'[p].data
                   IN  /\ DOMAIN d \subseteq DOMAIN e
                       /\ IF last'.op = "set" /\ last'.proc = p
                          THEN /\ DOMAIN e = DOMAIN d \cup {last'.key}
                               /\ e[last'.key] = last'.val
                               /\ \A j \in DOMAIN d \ {last'.key} :
                                     e[j] = d[j]
                          ELSE e = d]_vars

\* A set whose save failed and that added a second key to the mapping.
C17_Witness ==
    /\ last.op = "set"
    /\ last.res = "Err"
    /\ Cardinality(DOMAIN last.dataBefore) = 1
    /\ Cardinality(DOMAIN stores[last.proc].data) = 2

\* C18: when a set or save that returns Ok follows a failed set on the same
\* Store, the file decodes to the whole mapping of the Store, the entry of
\* the failed set included.
C18_RecoveryAfterFailedSave ==
    [][(last.op = "set" /\ last.res = "Err"
        /\ last'.op \in {"set", "save"} /\ last'.proc = last.proc
        /\ last'.res = "Ok")
          => /\ file'.exists
             /\ Decode(file'.bytes) =
                   [ok |-> TRUE, data |-> stores'[last.proc].data]
             /\ get(stores'[last.proc].data, last.key) # "None"]_vars

\* C19: a set call calls save exactly once, after the insert (a save that
\* met no fault leaves the file decoding to the mapping with the new pair),
\* and so calls File::create at most once; its result is that of this one
\* save.
C19_OneSavePerSet ==
    (last.op = "set")
        => /\ last.saves = 1
           /\ last.creates <= 1
           /\ (last.res = "Err") => last.fault
           /\ (~last.fault)
                 => /\ last.res = "Ok"
                    /\ Persisted(Insert(last.dataBefore, last.key, last.val))

\* A set whose one save failed while writing.
C19_Witness ==
    /\ last.op = "set"
    /\ last.res = "Err"
    /\ last.err = "WriteFailed"
    /\ last.saves = 1

\* C20: when two Stores that were both opened empty on the same path each
\* set a different key with success, one right after the other, the file
\* decodes to the mapping of the Store that saved last.
C20_LastSaverWins ==
    [][(last.op = "set" /\ last.res = "Ok" /\ last.dataBefore = EmptyMap
        /\ last'.op = "set" /\ last'.res = "Ok"
        /\ last'.dataBefore = EmptyMap
        /\ last'.proc # last.proc /\ last'.key # last.key
        /\ last'.path = last.path)
          => /\ file'.exists
             /\ Decode(file'.bytes) =
                   [ok |-> TRUE, data |-> stores'[last'.proc].data]]_vars

\* The lost update: after such a pair of successful sets the file decodes
\* and lacks the key the first Store set.
LostUpdate ==
    /\ last.op = "set"
    /\ last.res = "Ok"
    /\ Persisted(stores[last.proc].data)
    /\ \E q \in Procs \ {last.proc} :
          /\ stores[q].state = "open"
          /\ \E k \in DOMAIN stores[q].data : k \notin DOMAIN Decode(file.bytes).data

====
